---- MODULE Spec2Model ----
(***************************************************************************)
(* A model of the echo-rest-api backend: the users and tasks tables, the   *)
(* session cookie each browser holds, the clock, and one action per HTTP   *)
(* route.  The layers of the program (validator, repository, use-case,     *)
(* controller, router middleware) are operators that compute, from the     *)
(* tables and a request, the tables after the request and its response.    *)
(*                                                                         *)
(* Time is counted in hours.  A title is a sequence of characters (runes). *)
(* A bcrypt hash is a record that wraps the password it was made from: it  *)
(* is never equal to the plaintext, and comparing succeeds for exactly     *)
(* that password.  A signed token is a record of its claims and the key it *)
(* was signed with.                                                        *)
(***************************************************************************)
EXTENDS Integers, Sequences, FiniteSets, TLC

VARIABLES
    users,      \* the users table: a sequence of rows, in order of creation
    tasks,      \* the tasks table: a set of rows
    nextTaskId, \* the next value of the tasks table's id sequence
    now,        \* the clock, in hours
    jar,        \* per browser, the "token" cookie it holds
    pending,    \* per browser, the request that passed the middleware and
                \* whose store statement has not run yet
    resp        \* the last response sent

vars == <<users, tasks, nextTaskId, now, jar, pending, resp>>

----------------------------------------------------------------------------
(* Bounds of the model *)

MaxTasks == 2       \* rows ever inserted into the tasks table
MaxTime == 18       \* the clock stops here
MaxTaskTime == 12   \* the clock stops here when only the task routes are served
TickHours == 6      \* one step of the clock
MaxAuthTasks == 1   \* rows inserted while the login routes are exercised
MaxUsers == 2       \* rows of the users table

(* Program constants *)

MaxTitleLen == 10   \* validation.RuneLength(1, 10)
MinTitleLen == 1
TokenHours == 12    \* time.Hour * 12
CookieHours == 24   \* 24 * time.Hour
BcryptCost == 10

StatusOK == 200
StatusCreated == 201
StatusNoContent == 204
StatusBadRequest == 400
StatusUnauthorized == 401
StatusInternalServerError == 500

----------------------------------------------------------------------------
(* Values *)

Clients == {"c1", "c2"}

Secret == "SECRET"

NoErr == ""
ErrRecordNotFound == "record not found"
ErrDoesNotExist == "object does not exist"
ErrTitleRequired == "title is required"
ErrTitleMax == "limited max 10 char"
ErrMismatch == "crypto/bcrypt: hashedPassword is not the hash of the given password"
ErrDuplicate == "duplicate key value violates unique constraint"
ErrEmailRequired == "email is required"
ErrEmailFormat == "is not valid email format"
ErrPasswordRequired == "password is required"
ErrJWTMissing == "missing or malformed jwt"
ErrJWTInvalid == "invalid or expired jwt"

TitleOfLen(n) == [i \in 1..n |-> IF i = 1 THEN "t" ELSE "x"]

\* the titles a request body may carry: empty, short, the longest allowed,
\* one character too long
TitleInputs ==
    {TitleOfLen(0), TitleOfLen(MinTitleLen + 1), TitleOfLen(MaxTitleLen),
     TitleOfLen(MaxTitleLen + 1)}

\* the :taskId path parameter after strconv.Atoi (0 when it does not parse)
TaskIdParams == 0..(MaxTasks + 1)

NoToken == [user_id |-> 0, exp |-> 0, key |-> "none"]

NoCookie == [value |-> NoToken, expires |-> 0]

EmptyTask == [id |-> 0, title |-> <<>>, user_id |-> 0, created_at |-> 0, updated_at |-> 0]

----------------------------------------------------------------------------
(* validator/task_validator.go *)

\* a validator that checks the presence of the title and not its length
TaskValidate_NoMax(task) ==
    IF Len(task.title) = 0 THEN ErrTitleRequired ELSE NoErr

\* validation.Required, then validation.RuneLength(1, 10): the length is
\* counted in characters
taskValidator_TaskValidate(task) ==
    IF Len(task.title) = 0 THEN ErrTitleRequired
    ELSE IF Len(task.title) < MinTitleLen \/ Len(task.title) > MaxTitleLen THEN ErrTitleMax
    ELSE NoErr

----------------------------------------------------------------------------
(* repository/task_repository.go: each operator is one store statement.   *)
(* It takes the tasks table and returns the table after the statement.     *)

\* WHERE user_id = userId
OwnedBy(tbl, userId) == {r \in tbl : r.user_id = userId}

\* an ordering by creation time with the newest row first
OrderByCreatedAt_Desc(rows) ==
    LET n == Cardinality(rows)
    IN {s \in [1..n -> rows] :
            /\ \A i, j \in 1..n : i # j => s[i] # s[j]
            /\ \A i, j \in 1..n : i < j => s[i].created_at >= s[j].created_at}

\* the orders ORDER BY created_at may return the rows in: rows of equal
\* creation time come in any order
OrderByCreatedAt(rows) ==
    LET n == Cardinality(rows)
    IN {s \in [1..n -> rows] :
            /\ \A i, j \in 1..n : i # j => s[i] # s[j]
            /\ \A i, j \in 1..n : i < j => s[i].created_at <= s[j].created_at}

\* the set of listings the statement may produce; the statement has no error
\* of its own
taskRepository_GetAllTasks(tbl, userId) ==
    {[err |-> NoErr, tasks |-> s] : s \in OrderByCreatedAt(OwnedBy(tbl, userId))}

\* a lookup by id alone
GetTaskById_AnyOwner(tbl, userId, taskId) ==
    LET found == {r \in tbl : r.id = taskId}
    IN IF found = {} THEN [err |-> ErrRecordNotFound, task |-> EmptyTask]
       ELSE [err |-> NoErr, task |-> CHOOSE r \in found : TRUE]

\* WHERE user_id = userId AND id = taskId ... LIMIT 1
taskRepository_GetTaskById(tbl, userId, taskId) ==
    LET found == {r \in OwnedBy(tbl, userId) : r.id = taskId}
    IN IF found = {} THEN [err |-> ErrRecordNotFound, task |-> EmptyTask]
       ELSE [err |-> NoErr, task |-> CHOOSE r \in found : TRUE]

\* the row an INSERT of a model.Task makes: the store assigns the id from
\* the table's sequence and sets both timestamps to the time of the insert
NewTaskRow(seq, task, t) ==
    [id |-> seq, title |-> task.title, user_id |-> task.user_id,
     created_at |-> t, updated_at |-> t]

\* INSERT
taskRepository_CreateTask(tbl, seq, task, t) ==
    LET row == NewTaskRow(seq, task, t)
    IN [err |-> NoErr, table |-> tbl \cup {row}, task |-> row]

\* an update filtered by id alone
UpdateTask_AnyOwner(tbl, task, userId, taskId, t) ==
    LET hit == {r \in tbl : r.id = taskId}
        upd(r) == [r EXCEPT !.title = task.title, !.updated_at = t]
    IN IF Cardinality(hit) < 1
       THEN [err |-> ErrDoesNotExist, table |-> tbl, task |-> task]
       ELSE [err |-> NoErr,
             table |-> (tbl \ hit) \cup {upd(r) : r \in hit},
             task |-> upd(CHOOSE r \in hit : TRUE)]

\* an update that saves the whole bound task over the row: the title, and
\* with it the creation time, which the body does not carry
UpdateTask_SaveAll(tbl, task, userId, taskId, t) ==
    LET hit == {r \in tbl : r.id = taskId /\ r.user_id = userId}
        upd(r) == [r EXCEPT !.title = task.title, !.created_at = t, !.updated_at = t]
    IN IF Cardinality(hit) < 1
       THEN [err |-> ErrDoesNotExist, table |-> tbl, task |-> task]
       ELSE [err |-> NoErr,
             table |-> (tbl \ hit) \cup {upd(r) : r \in hit},
             task |-> upd(CHOOSE r \in hit : TRUE)]

\* UPDATE ... SET title, updated_at WHERE id = taskId AND user_id = userId
\* RETURNING *
taskRepository_UpdateTask(tbl, task, userId, taskId, t) ==
    LET hit == {r \in tbl : r.id = taskId /\ r.user_id = userId}
        upd(r) == [r EXCEPT !.title = task.title, !.updated_at = t]
    IN IF Cardinality(hit) < 1
       THEN [err |-> ErrDoesNotExist, table |-> tbl, task |-> task]
       ELSE [err |-> NoErr,
             table |-> (tbl \ hit) \cup {upd(r) : r \in hit},
             task |-> upd(CHOOSE r \in hit : TRUE)]

\* a delete that reports success and keeps the row
DeleteTask_KeepsRow(tbl, userId, taskId) ==
    LET hit == {r \in tbl : r.id = taskId /\ r.user_id = userId}
    IN IF Cardinality(hit) < 1
       THEN [err |-> ErrDoesNotExist, table |-> tbl]
       ELSE [err |-> NoErr, table |-> tbl]

\* a delete filtered by id alone
DeleteTask_AnyOwner(tbl, userId, taskId) ==
    LET hit == {r \in tbl : r.id = taskId}
    IN IF Cardinality(hit) < 1
       THEN [err |-> ErrDoesNotExist, table |-> tbl]
       ELSE [err |-> NoErr, table |-> tbl \ hit]

\* a delete that does not look at the number of rows it removed
DeleteTask_NoRowCheck(tbl, userId, taskId) ==
    LET hit == {r \in tbl : r.id = taskId /\ r.user_id = userId}
    IN [err |-> NoErr, table |-> tbl \ hit]

\* DELETE ... WHERE id = taskId AND user_id = userId
taskRepository_DeleteTask(tbl, userId, taskId) ==
    LET hit == {r \in tbl : r.id = taskId /\ r.user_id = userId}
    IN IF Cardinality(hit) < 1
       THEN [err |-> ErrDoesNotExist, table |-> tbl]
       ELSE [err |-> NoErr, table |-> tbl \ hit]

----------------------------------------------------------------------------
(* usecase/task_usecase.go *)

\* the response projection: the owner is left out
TaskResponse(r) ==
    [id |-> r.id, title |-> r.title, created_at |-> r.created_at, updated_at |-> r.updated_at]

EmptyTaskResponse == TaskResponse(EmptyTask)

taskUsecase_GetAllTasks(tbl, userId) ==
    {[err |-> l.err,
      tasks |-> [i \in 1..Len(l.tasks) |-> TaskResponse(l.tasks[i])]] :
        l \in taskRepository_GetAllTasks(tbl, userId)}

taskUsecase_GetTaskById(tbl, userId, taskId) ==
    LET r == taskRepository_GetTaskById(tbl, userId, taskId)
    IN IF r.err # NoErr THEN [err |-> r.err, task |-> EmptyTaskResponse]
       ELSE [err |-> NoErr, task |-> TaskResponse(r.task)]

taskUsecase_CreateTask(tbl, seq, task, t) ==
    LET v == taskValidator_TaskValidate(task)
        r == taskRepository_CreateTask(tbl, seq, task, t)
    IN IF v # NoErr THEN [err |-> v, table |-> tbl, repo |-> FALSE, task |-> EmptyTaskResponse]
       ELSE IF r.err # NoErr
            THEN [err |-> r.err, table |-> tbl, repo |-> TRUE, task |-> EmptyTaskResponse]
       ELSE [err |-> NoErr, table |-> r.table, repo |-> TRUE, task |-> TaskResponse(r.task)]

taskUsecase_UpdateTask(tbl, task, userId, taskId, t) ==
    LET v == taskValidator_TaskValidate(task)
        r == taskRepository_UpdateTask(tbl, task, userId, taskId, t)
    IN IF v # NoErr THEN [err |-> v, table |-> tbl, repo |-> FALSE, task |-> EmptyTaskResponse]
       ELSE IF r.err # NoErr
            THEN [err |-> r.err, table |-> r.table, repo |-> TRUE, task |-> EmptyTaskResponse]
       ELSE [err |-> NoErr, table |-> r.table, repo |-> TRUE, task |-> TaskResponse(r.task)]

taskUsecase_DeleteTask(tbl, userId, taskId) ==
    LET r == taskRepository_DeleteTask(tbl, userId, taskId)
    IN [err |-> r.err, table |-> r.table]

----------------------------------------------------------------------------
(* Requests and responses *)

ErrBind == "bind: malformed request body"

\* a request: the route's handler, the browser, the cookie it sends, and
\* what the path and the body carry
BaseReq ==
    [op |-> "none", client |-> "none", at |-> 0, cookie |-> NoToken, taskId |-> 0,
     bodyOk |-> TRUE, title |-> <<>>, bodyUserId |-> 0, email |-> "", password |-> ""]

NoRequest == BaseReq

\* a response, with the request it answers: at is the time of the request,
\* handled says whether a controller operation ran, repo whether it reached
\* the repository, newCookie is the Set-Cookie header when setCookie holds
BaseResp ==
    [op |-> "none", client |-> "none", at |-> 0, cookie |-> NoToken, taskId |-> 0,
     bodyOk |-> TRUE, title |-> <<>>, bodyUserId |-> 0, email |-> "", password |-> "",
     handled |-> FALSE, repo |-> FALSE, status |-> 0, err |-> NoErr, tasks |-> <<>>,
     user |-> [id |-> 0, email |-> ""], setCookie |-> FALSE, newCookie |-> NoCookie]

RespTo(req) ==
    [BaseResp EXCEPT !.op = req.op, !.client = req.client, !.at = req.at, !.cookie = req.cookie,
                     !.taskId = req.taskId, !.bodyOk = req.bodyOk, !.title = req.title,
                     !.bodyUserId = req.bodyUserId, !.email = req.email,
                     !.password = req.password]

----------------------------------------------------------------------------
(* router: the /tasks group's echojwt middleware, SigningKey SECRET,       *)
(* TokenLookup "cookie:token"                                              *)

\* a middleware that checks the signature and not the expiry
JWTMiddleware_NoExpiry(cookie, t) ==
    IF cookie = NoToken THEN "missing"
    ELSE IF cookie.key # Secret THEN "invalid"
    ELSE "ok"

JWTMiddleware(cookie, t) ==
    IF cookie = NoToken THEN "missing"
    ELSE IF cookie.key # Secret \/ ~(t < cookie.exp) THEN "invalid"
    ELSE "ok"

\* the middleware's own response to a request it does not let through
Rejected(req) ==
    LET m == JWTMiddleware(req.cookie, req.at)
    IN [RespTo(req) EXCEPT
            !.status = IF m = "missing" THEN StatusBadRequest ELSE StatusUnauthorized,
            !.err = IF m = "missing" THEN ErrJWTMissing ELSE ErrJWTInvalid]

----------------------------------------------------------------------------
(* controller/task_controller.go: each operator gives the outcomes of one  *)
(* handler run against the tables: the tables after it and the response    *)
(* fields.  req.cookie is the verified token the middleware put in the     *)
(* context.                                                                *)

Outcome(tbl, seq, repo, status, err, ts) ==
    [table |-> tbl, nextId |-> seq, repo |-> repo, status |-> status, err |-> err, tasks |-> ts]

taskController_GetAllTasks(req, tbl, seq, t) ==
    LET userId == req.cookie.user_id
    IN {IF r.err # NoErr
        THEN Outcome(tbl, seq, TRUE, StatusInternalServerError, r.err, <<>>)
        ELSE Outcome(tbl, seq, TRUE, StatusOK, NoErr, r.tasks) :
            r \in taskUsecase_GetAllTasks(tbl, userId)}

taskController_GetTaskById(req, tbl, seq, t) ==
    LET userId == req.cookie.user_id
        r == taskUsecase_GetTaskById(tbl, userId, req.taskId)
    IN {IF r.err # NoErr
        THEN Outcome(tbl, seq, TRUE, StatusInternalServerError, r.err, <<>>)
        ELSE Outcome(tbl, seq, TRUE, StatusOK, NoErr, <<r.task>>)}

\* a handler that keeps the owner id the body carries
CreateTask_BodyOwner(req, tbl, seq, t) ==
    LET task == [title |-> req.title, user_id |-> req.bodyUserId]
        r == taskUsecase_CreateTask(tbl, seq, task, t)
    IN {IF ~req.bodyOk
        THEN Outcome(tbl, seq, FALSE, StatusBadRequest, ErrBind, <<>>)
        ELSE IF r.err # NoErr
        THEN Outcome(tbl, seq, r.repo, StatusInternalServerError, r.err, <<>>)
        ELSE Outcome(r.table, seq + 1, r.repo, StatusCreated, NoErr, <<r.task>>)}

taskController_CreateTask(req, tbl, seq, t) ==
    LET userId == req.cookie.user_id
        bound == [title |-> req.title, user_id |-> req.bodyUserId]
        task == [bound EXCEPT !.user_id = userId]
        r == taskUsecase_CreateTask(tbl, seq, task, t)
    IN {IF ~req.bodyOk
        THEN Outcome(tbl, seq, FALSE, StatusBadRequest, ErrBind, <<>>)
        ELSE IF r.err # NoErr
        THEN Outcome(tbl, seq, r.repo, StatusInternalServerError, r.err, <<>>)
        ELSE Outcome(r.table, seq + 1, r.repo, StatusCreated, NoErr, <<r.task>>)}

\* a handler that filters on the owner id of the body when it carries one
UpdateTask_BodyOwner(req, tbl, seq, t) ==
    LET userId == IF req.bodyUserId # 0 THEN req.bodyUserId ELSE req.cookie.user_id
        task == [title |-> req.title, user_id |-> req.bodyUserId]
        r == taskUsecase_UpdateTask(tbl, task, userId, req.taskId, t)
    IN {IF ~req.bodyOk
        THEN Outcome(tbl, seq, FALSE, StatusBadRequest, ErrBind, <<>>)
        ELSE IF r.err # NoErr
        THEN Outcome(r.table, seq, r.repo, StatusInternalServerError, r.err, <<>>)
        ELSE Outcome(r.table, seq, r.repo, StatusOK, NoErr, <<r.task>>)}

taskController_UpdateTask(req, tbl, seq, t) ==
    LET userId == req.cookie.user_id
        task == [title |-> req.title, user_id |-> req.bodyUserId]
        r == taskUsecase_UpdateTask(tbl, task, userId, req.taskId, t)
    IN {IF ~req.bodyOk
        THEN Outcome(tbl, seq, FALSE, StatusBadRequest, ErrBind, <<>>)
        ELSE IF r.err # NoErr
        THEN Outcome(r.table, seq, r.repo, StatusInternalServerError, r.err, <<>>)
        ELSE Outcome(r.table, seq, r.repo, StatusOK, NoErr, <<r.task>>)}

\* a handler that answers a delete with 200 in place of 204
DeleteTask_StatusOK(req, tbl, seq, t) ==
    LET userId == req.cookie.user_id
        r == taskUsecase_DeleteTask(tbl, userId, req.taskId)
    IN {IF r.err # NoErr
        THEN Outcome(r.table, seq, TRUE, StatusInternalServerError, r.err, <<>>)
        ELSE Outcome(r.table, seq, TRUE, StatusOK, NoErr, <<>>)}

taskController_DeleteTask(req, tbl, seq, t) ==
    LET userId == req.cookie.user_id
        r == taskUsecase_DeleteTask(tbl, userId, req.taskId)
    IN {IF r.err # NoErr
        THEN Outcome(r.table, seq, TRUE, StatusInternalServerError, r.err, <<>>)
        ELSE Outcome(r.table, seq, TRUE, StatusNoContent, NoErr, <<>>)}

\* the /tasks group's bindings of method and path to controller operation
TaskRoutes == {"GetAllTasks", "GetTaskById", "CreateTask", "UpdateTask", "DeleteTask"}

TaskHandler(req, tbl, seq, t) ==
    CASE req.op = "GetAllTasks" -> taskController_GetAllTasks(req, tbl, seq, t)
      [] req.op = "GetTaskById" -> taskController_GetTaskById(req, tbl, seq, t)
      [] req.op = "CreateTask" -> taskController_CreateTask(req, tbl, seq, t)
      [] req.op = "UpdateTask" -> taskController_UpdateTask(req, tbl, seq, t)
      [] req.op = "DeleteTask" -> taskController_DeleteTask(req, tbl, seq, t)

----------------------------------------------------------------------------
(* validator: UserValidate; repository: users; usecase: SignUp and Login   *)

ValidEmails == {"a@x.com", "b@x.com"}
EmailInputs == ValidEmails \cup {"", "nomail"}
Passwords == {"secret", "hunter22"}
PasswordInputs == Passwords \cup {""}

\* presence of email and password, and the email's format
userValidator_UserValidate(user) ==
    IF user.email = "" THEN ErrEmailRequired
    ELSE IF user.email \notin ValidEmails THEN ErrEmailFormat
    ELSE IF user.password = "" THEN ErrPasswordRequired
    ELSE NoErr

bcrypt_GenerateFromPassword(password, cost) == [bcrypt |-> password, cost |-> cost]

bcrypt_CompareHashAndPassword(hash, password) ==
    IF hash.bcrypt = password THEN NoErr ELSE ErrMismatch

EmptyUser == [id |-> 0, email |-> "", password |-> bcrypt_GenerateFromPassword("", 0)]

\* the users table's unique email column
EmailTaken(utbl, email) == \E i \in 1..Len(utbl) : utbl[i].email = email

\* WHERE email = email ... LIMIT 1
userRepository_GetUserByEmail(utbl, email) ==
    LET found == {i \in 1..Len(utbl) : utbl[i].email = email}
    IN IF found = {} THEN [err |-> ErrRecordNotFound, user |-> EmptyUser]
       ELSE [err |-> NoErr, user |-> utbl[CHOOSE i \in found : \A j \in found : i <= j]]

\* INSERT: the store assigns the id
userRepository_CreateUser(utbl, user) ==
    LET row == [id |-> Len(utbl) + 1, email |-> user.email, password |-> user.password]
    IN IF EmailTaken(utbl, user.email)
       THEN [err |-> ErrDuplicate, table |-> utbl, user |-> user]
       ELSE [err |-> NoErr, table |-> Append(utbl, row), user |-> row]

NoUserResponse == [id |-> 0, email |-> ""]

userUsecase_SignUp(utbl, user) ==
    LET v == userValidator_UserValidate(user)
        hash == bcrypt_GenerateFromPassword(user.password, BcryptCost)
        newUser == [id |-> 0, email |-> user.email, password |-> hash]
        r == userRepository_CreateUser(utbl, newUser)
    IN IF v # NoErr THEN [err |-> v, table |-> utbl, user |-> NoUserResponse]
       ELSE IF r.err # NoErr THEN [err |-> r.err, table |-> utbl, user |-> NoUserResponse]
       ELSE [err |-> NoErr, table |-> r.table,
             user |-> [id |-> r.user.id, email |-> r.user.email]]

\* jwt.NewWithClaims(HS256, {user_id, exp}) signed with SECRET
SignedToken(userId, t) == [user_id |-> userId, exp |-> t + TokenHours, key |-> Secret]

\* a login that does not compare the password with the stored hash
Login_NoCompare(utbl, user, t) ==
    LET v == userValidator_UserValidate(user)
        r == userRepository_GetUserByEmail(utbl, user.email)
    IN IF v # NoErr THEN [err |-> v, token |-> NoToken]
       ELSE IF r.err # NoErr THEN [err |-> r.err, token |-> NoToken]
       ELSE [err |-> NoErr, token |-> SignedToken(r.user.id, t)]

userUsecase_Login(utbl, user, t) ==
    LET v == userValidator_UserValidate(user)
        r == userRepository_GetUserByEmail(utbl, user.email)
        storedUser == r.user
        c == bcrypt_CompareHashAndPassword(storedUser.password, user.password)
    IN IF v # NoErr THEN [err |-> v, token |-> NoToken]
       ELSE IF r.err # NoErr THEN [err |-> r.err, token |-> NoToken]
       ELSE IF c # NoErr THEN [err |-> c, token |-> NoToken]
       ELSE [err |-> NoErr, token |-> SignedToken(storedUser.id, t)]

----------------------------------------------------------------------------
(* controller/user_controller.go *)

userController_SignUp(req, utbl) ==
    LET user == [email |-> req.email, password |-> req.password]
        r == userUsecase_SignUp(utbl, user)
    IN IF ~req.bodyOk
       THEN [table |-> utbl, status |-> StatusBadRequest, err |-> ErrBind, user |-> NoUserResponse]
       ELSE IF r.err # NoErr
       THEN [table |-> utbl, status |-> StatusInternalServerError, err |-> r.err,
             user |-> NoUserResponse]
       ELSE [table |-> r.table, status |-> StatusCreated, err |-> NoErr, user |-> r.user]

\* a handler that writes the token cookie before it looks at the error
LogIn_CookieFirst(req, utbl, t) ==
    LET user == [email |-> req.email, password |-> req.password]
        r == userUsecase_Login(utbl, user, t)
        cookie == [value |-> r.token, expires |-> t + CookieHours]
    IN IF ~req.bodyOk
       THEN [status |-> StatusBadRequest, err |-> ErrBind, setCookie |-> FALSE,
             newCookie |-> NoCookie]
       ELSE IF r.err # NoErr
       THEN [status |-> StatusInternalServerError, err |-> r.err, setCookie |-> TRUE,
             newCookie |-> cookie]
       ELSE [status |-> StatusOK, err |-> NoErr, setCookie |-> TRUE, newCookie |-> cookie]

userController_LogIn(req, utbl, t) ==
    LET user == [email |-> req.email, password |-> req.password]
        r == userUsecase_Login(utbl, user, t)
    IN IF ~req.bodyOk
       THEN [status |-> StatusBadRequest, err |-> ErrBind, setCookie |-> FALSE,
             newCookie |-> NoCookie]
       ELSE IF r.err # NoErr
       THEN [status |-> StatusInternalServerError, err |-> r.err, setCookie |-> FALSE,
             newCookie |-> NoCookie]
       ELSE [status |-> StatusOK, err |-> NoErr, setCookie |-> TRUE,
             newCookie |-> [value |-> r.token, expires |-> t + CookieHours]]

\* a logout that answers without replacing the cookie
LogOut_NoCookie(req, t) ==
    [status |-> StatusOK, err |-> NoErr, setCookie |-> FALSE, newCookie |-> NoCookie]

userController_LogOut(req, t) ==
    [status |-> StatusOK, err |-> NoErr, setCookie |-> TRUE,
     newCookie |-> [value |-> NoToken, expires |-> t]]

----------------------------------------------------------------------------
(* The browsers and the requests they send *)

\* the cookie a browser sends: the one it holds, until that cookie expires
BrowserCookie(c) == IF now < jar[c].expires THEN jar[c].value ELSE NoToken

\* the ids of the users that have signed up
RegisteredIds == {users[i].id : i \in 1..Len(users)}

\* a token signed with a key that is not the server's
Forged(u) == [user_id |-> u, exp |-> now + TokenHours, key |-> "forged"]

\* what a request from c may carry as its token cookie
CookieInputs(c) == {BrowserCookie(c), NoToken} \cup {Forged(u) : u \in RegisteredIds}

Req(c, op, cookie) == [BaseReq EXCEPT !.op = op, !.client = c, !.at = now, !.cookie = cookie]

\* the bodies a task request may carry: malformed, or a title in titles with
\* an owner id in owners
TaskBodies(req, titles, owners) ==
    {[req EXCEPT !.bodyOk = FALSE]}
        \cup {[req EXCEPT !.title = ti, !.bodyUserId = u] : ti \in titles, u \in owners}

\* the requests to the /tasks routes that c may send with a cookie of K
TaskRequests(c, K, ids, titles, owners) ==
    UNION {
        {Req(c, "GetAllTasks", k)}
        \cup {[Req(c, "GetTaskById", k) EXCEPT !.taskId = id] : id \in ids}
        \cup TaskBodies(Req(c, "CreateTask", k), titles, owners)
        \cup UNION {TaskBodies([Req(c, "UpdateTask", k) EXCEPT !.taskId = id], titles, owners) :
                        id \in ids}
        \cup {[Req(c, "DeleteTask", k) EXCEPT !.taskId = id] : id \in ids}
        : k \in K}

\* the bodies a sign-up or login request may carry
UserBodies(req) ==
    {[req EXCEPT !.bodyOk = FALSE]}
        \cup {[req EXCEPT !.email = e, !.password = p] : e \in EmailInputs, p \in PasswordInputs}

----------------------------------------------------------------------------
(* Actions.  resp is the response on its way to the browser: a request is  *)
(* served when no response is outstanding, and Receive delivers it.        *)

Idle == resp = BaseResp

Answered(req, o) ==
    [RespTo(req) EXCEPT !.handled = TRUE, !.repo = o.repo, !.status = o.status,
                        !.err = o.err, !.tasks = o.tasks]

\* the handler of an admitted request runs: its store statement and response
Handle(req) ==
    \E o \in TaskHandler(req, tasks, nextTaskId, now) :
        /\ o.nextId <= MaxTasks + 1
        /\ tasks' = o.table
        /\ nextTaskId' = o.nextId
        /\ resp' = Answered(req, o)

\* a request to a /tasks route, served in one step: the middleware, then the
\* handler
Serve(req) ==
    /\ Idle
    /\ pending[req.client] = NoRequest
    /\ IF JWTMiddleware(req.cookie, now) # "ok"
       THEN /\ resp' = Rejected(req)
            /\ UNCHANGED <<tasks, nextTaskId>>
       ELSE Handle(req)
    /\ UNCHANGED <<users, now, jar, pending>>

GET_tasks(R) == Idle /\ \E req \in R : req.op = "GetAllTasks" /\ Serve(req)

GET_tasks_taskId(R) == Idle /\ \E req \in R : req.op = "GetTaskById" /\ Serve(req)

POST_tasks(R) == Idle /\ \E req \in R : req.op = "CreateTask" /\ Serve(req)

PUT_tasks_taskId(R) == Idle /\ \E req \in R : req.op = "UpdateTask" /\ Serve(req)

DELETE_tasks_taskId(R) == Idle /\ \E req \in R : req.op = "DeleteTask" /\ Serve(req)

\* the same request in two steps, so that requests of different browsers
\* interleave: the middleware admits it, and later its handler runs
Begin(R) ==
    Idle /\ \E req \in R :
        /\ pending[req.client] = NoRequest
        /\ IF JWTMiddleware(req.cookie, now) # "ok"
           THEN resp' = Rejected(req) /\ UNCHANGED pending
           ELSE pending' = [pending EXCEPT ![req.client] = req] /\ UNCHANGED resp
        /\ UNCHANGED <<users, tasks, nextTaskId, now, jar>>

Finish(c) ==
    /\ Idle
    /\ pending[c] # NoRequest
    /\ Handle(pending[c])
    /\ pending' = [pending EXCEPT ![c] = NoRequest]
    /\ UNCHANGED <<users, now, jar>>

POST_signup(c) ==
    \E req \in UserBodies(Req(c, "SignUp", BrowserCookie(c))) :
        LET o == userController_SignUp(req, users)
        IN /\ Idle
           /\ Len(o.table) <= MaxUsers
           /\ users' = o.table
           /\ resp' = [RespTo(req) EXCEPT !.handled = TRUE, !.status = o.status,
                                          !.err = o.err, !.user = o.user]
           /\ UNCHANGED <<tasks, nextTaskId, now, jar, pending>>

POST_login(c) ==
    \E req \in UserBodies(Req(c, "LogIn", BrowserCookie(c))) :
        LET o == userController_LogIn(req, users, now)
        IN /\ Idle
           /\ resp' = [RespTo(req) EXCEPT !.handled = TRUE, !.status = o.status,
                                          !.err = o.err, !.setCookie = o.setCookie,
                                          !.newCookie = o.newCookie]
           /\ UNCHANGED <<users, tasks, nextTaskId, now, jar, pending>>

POST_logout(c) ==
    LET req == Req(c, "LogOut", BrowserCookie(c))
        o == userController_LogOut(req, now)
    IN /\ Idle
       /\ resp' = [RespTo(req) EXCEPT !.handled = TRUE, !.status = o.status,
                                      !.err = o.err, !.setCookie = o.setCookie,
                                      !.newCookie = o.newCookie]
       /\ UNCHANGED <<users, tasks, nextTaskId, now, jar, pending>>

\* the browser receives the response and stores the cookie it sets
Receive ==
    /\ ~Idle
    /\ resp' = BaseResp
    /\ jar' = IF resp.setCookie THEN [jar EXCEPT ![resp.client] = resp.newCookie] ELSE jar
    /\ UNCHANGED <<users, tasks, nextTaskId, now, pending>>

\* time passes between requests; a response is delivered at once
Tick(limit) ==
    /\ Idle
    /\ now < limit
    /\ now' = now + TickHours
    /\ UNCHANGED <<users, tasks, nextTaskId, jar, pending, resp>>

----------------------------------------------------------------------------
(* Specifications *)

\* the system after construction: empty tables, no cookies
Init ==
    /\ users = <<>>
    /\ tasks = {}
    /\ nextTaskId = 1
    /\ now = 0
    /\ jar = [c \in Clients |-> NoCookie]
    /\ pending = [c \in Clients |-> NoRequest]
    /\ resp = BaseResp

\* two users have signed up and each browser has logged in as one of them
SignedInUsers ==
    <<[id |-> 1, email |-> "a@x.com",
       password |-> bcrypt_GenerateFromPassword("secret", BcryptCost)],
      [id |-> 2, email |-> "b@x.com",
       password |-> bcrypt_GenerateFromPassword("hunter22", BcryptCost)]>>

SignedInJar ==
    [c \in Clients |->
        [value |-> SignedToken(IF c = "c1" THEN 1 ELSE 2, 0), expires |-> CookieHours]]

InitSignedIn ==
    /\ users = SignedInUsers
    /\ tasks = {}
    /\ nextTaskId = 1
    /\ now = 0
    /\ jar = SignedInJar
    /\ pending = [c \in Clients |-> NoRequest]
    /\ resp = BaseResp

\* the owner id a task body may carry: none, or the id of a user other than
\* the one the browser is signed in as
BodyOwnerInputs(c) == {0} \cup (RegisteredIds \ {jar[c].value.user_id})

\* the task routes, with every kind of cookie, path and body
SessionRequests ==
    UNION {TaskRequests(c, CookieInputs(c), TaskIdParams, TitleInputs, BodyOwnerInputs(c)) :
            c \in Clients}

TaskNext ==
    \/ GET_tasks(SessionRequests)
    \/ GET_tasks_taskId(SessionRequests)
    \/ POST_tasks(SessionRequests)
    \/ PUT_tasks_taskId(SessionRequests)
    \/ DELETE_tasks_taskId(SessionRequests)
    \/ Receive
    \/ Tick(MaxTaskTime)

SpecTasks == InitSignedIn /\ [][TaskNext]_vars

\* the task routes served in two steps, so that the requests of the two
\* browsers interleave; the clock stands still
ConcRequests ==
    UNION {TaskRequests(c, {BrowserCookie(c), NoToken}, 1..MaxTasks,
                        {TitleOfLen(MinTitleLen + 1), TitleOfLen(MaxTitleLen)}, {0}) :
            c \in Clients}

ConcNext ==
    \/ Begin(ConcRequests)
    \/ \E c \in Clients : Finish(c)
    \/ Receive

SpecConc == InitSignedIn /\ [][ConcNext]_vars

\* the whole interface from the empty system: sign-up, login and logout by
\* one browser, and the task routes with the cookie that browser holds
AuthClients == {"c1"}

AuthRequests ==
    UNION {TaskRequests(c, {BrowserCookie(c)}, 1..MaxAuthTasks,
                        {TitleOfLen(0), TitleOfLen(MinTitleLen + 1)}, {0}) :
            c \in AuthClients}

Next ==
    \/ \E c \in AuthClients : POST_signup(c)
    \/ \E c \in AuthClients : POST_login(c)
    \/ \E c \in AuthClients : POST_logout(c)
    \/ GET_tasks(AuthRequests)
    \/ GET_tasks_taskId(AuthRequests)
    \/ POST_tasks(AuthRequests) /\ nextTaskId' <= MaxAuthTasks + 1
    \/ PUT_tasks_taskId(AuthRequests)
    \/ DELETE_tasks_taskId(AuthRequests)
    \/ Receive
    \/ Tick(MaxTime)

Spec == Init /\ [][Next]_vars

----------------------------------------------------------------------------
(* Properties.  While a response is outstanding no request is served, so a *)
(* state predicate on resp speaks of the tables as the request left them;  *)
(* a step from Idle to ~Idle is the serving of one request, with the       *)
(* tables before it unprimed and after it primed.                          *)

\* the session user of the request resp answers
Caller == resp.cookie.user_id

\* resp answers a request that the controller operation op handled
Ran(op) == resp.op = op /\ resp.handled

\* the rows the owner-scoped filter of the request matches
Matching(tbl, r) == {T \in tbl : T.id = r.taskId /\ T.user_id = r.cookie.user_id}

\* C1: a task owned by one user is never returned to another: GetTaskById
\* with another user's session and the task's id answers "record not found"
\* with no task data, and GetAllTasks never lists a task of another owner.
C1_OwnerScopedReads ==
    /\ (Ran("GetTaskById") /\ \E T \in tasks : T.id = resp.taskId /\ T.user_id # Caller)
            => /\ resp.status = StatusInternalServerError
               /\ resp.err = ErrRecordNotFound
               /\ resp.tasks = <<>>
    /\ Ran("GetAllTasks")
            => \A i \in 1..Len(resp.tasks) : \A T \in tasks :
                    T.user_id # Caller => resp.tasks[i].id # T.id

C1_Witness ==
    /\ Ran("GetTaskById")
    /\ \E T \in tasks : T.id = resp.taskId /\ T.user_id # Caller
    /\ \E T \in tasks : T.user_id = Caller

\* a title the validation policy rejects
BadTitle(title) == Len(title) = 0 \/ Len(title) > MaxTitleLen

\* C2: CreateTask and UpdateTask with a title of length 0 or of more than 10
\* characters answer with the validator's error, the repository is not
\* called, and the tasks table is the same after the request as before it.
C2_InvalidTitleNoWrite ==
    [][(Idle /\ resp'.handled /\ resp'.op \in {"CreateTask", "UpdateTask"}
            /\ resp'.bodyOk /\ BadTitle(resp'.title))
        => /\ resp'.status = StatusInternalServerError
           /\ resp'.err = (IF Len(resp'.title) = 0 THEN ErrTitleRequired ELSE ErrTitleMax)
           /\ ~resp'.repo
           /\ tasks' = tasks
           /\ nextTaskId' = nextTaskId]_vars

C2_Witness ==
    /\ Ran("UpdateTask") /\ resp.bodyOk
    /\ Len(resp.title) > MaxTitleLen
    /\ resp.err = ErrTitleMax
    /\ Matching(tasks, resp) # {}

\* C3: UpdateTask with a valid title for a task id and session user that
\* match no row (no such task, or a task of another user) answers "object
\* does not exist" and leaves every stored task unchanged.
C3_UpdateNoMatch ==
    [][(Idle /\ resp'.handled /\ resp'.op = "UpdateTask" /\ resp'.bodyOk
            /\ ~BadTitle(resp'.title) /\ Matching(tasks, resp') = {})
        => /\ resp'.status = StatusInternalServerError
           /\ resp'.err = ErrDoesNotExist
           /\ tasks' = tasks]_vars

C3_Witness ==
    /\ Ran("UpdateTask") /\ resp.bodyOk /\ ~BadTitle(resp.title)
    /\ resp.err = ErrDoesNotExist
    /\ \E T \in tasks : T.id = resp.taskId /\ T.user_id # Caller /\ T.title # resp.title

\* C4: DeleteTask for a task id and session user that match no row answers
\* "object does not exist", an error of the repository's own that the
\* use-case hands on unchanged, and removes nothing.
C4_DeleteNoMatch ==
    [][(Idle /\ resp'.handled /\ resp'.op = "DeleteTask" /\ Matching(tasks, resp') = {})
        => /\ resp'.status = StatusInternalServerError
           /\ resp'.err = ErrDoesNotExist
           /\ resp'.err \notin {ErrRecordNotFound, ErrTitleRequired, ErrTitleMax}
           /\ tasks' = tasks]_vars

C4_Witness ==
    /\ Ran("DeleteTask")
    /\ resp.err = ErrDoesNotExist
    /\ \E T \in tasks : T.id = resp.taskId /\ T.user_id # Caller

\* the rows of the users table with the email of the login resp answers
Stored == {users[i] : i \in {j \in 1..Len(users) : users[j].email = resp.email}}

\* C5: a login with a registered email and a password that is not the one
\* the stored hash was made from fails and sets no token; with the matching
\* password it answers 200 and sets a token signed by the server whose
\* user_id is the stored user's id and whose exp is 12 hours after the
\* login.
C5_LoginToken ==
    (Ran("LogIn") /\ resp.bodyOk)
        => \A u \in Stored :
            IF u.password.bcrypt # resp.password
            THEN /\ resp.status = StatusInternalServerError
                 /\ resp.err # NoErr
                 /\ ~resp.setCookie
                 /\ resp.newCookie.value = NoToken
            ELSE /\ resp.status = StatusOK
                 /\ resp.setCookie
                 /\ resp.newCookie.value.key = Secret
                 /\ resp.newCookie.value.user_id = u.id
                 /\ resp.newCookie.value.exp = resp.at + TokenHours

\* a login with a wrong password fails while the browser still holds the
\* token of an earlier login as the second user, made after time 0
C5_Witness ==
    /\ Ran("LogIn") /\ resp.bodyOk
    /\ \E u \in Stored : u.password.bcrypt # resp.password /\ resp.password # ""
    /\ resp.err = ErrMismatch
    /\ jar[resp.client].value.key = Secret
    /\ jar[resp.client].value.user_id = 2
    /\ jar[resp.client].value.exp > TokenHours

\* a cookie the middleware must not let through at time t: none, one not
\* signed with the server's key, or one whose expiry has passed
BadCookie(k, t) == k = NoToken \/ k.key # Secret \/ k.exp <= t

\* C6: a request to any of the five /tasks routes that carries no token, a
\* token not signed by the server, or an expired token is answered by the
\* middleware: no controller operation runs, the repository is not
\* reached, no task data is returned and the tables are unchanged.
C6_MiddlewareRejects ==
    [][(Idle /\ resp'.op \in TaskRoutes /\ BadCookie(resp'.cookie, resp'.at))
        => /\ ~resp'.handled
           /\ ~resp'.repo
           /\ resp'.status \in {StatusBadRequest, StatusUnauthorized}
           /\ resp'.tasks = <<>>
           /\ tasks' = tasks
           /\ nextTaskId' = nextTaskId]_vars

\* the owner's own token, expired, is refused on a delete of their own task
C6_Witness ==
    /\ resp.op = "DeleteTask"
    /\ resp.cookie.key = Secret
    /\ resp.cookie.exp <= resp.at
    /\ ~resp.handled
    /\ Matching(tasks, resp) # {}

\* the session of browser c: the browser holds a server-signed token, and
\* neither the cookie nor the token has expired
Authenticated(c) ==
    /\ jar[c].value.key = Secret
    /\ now < jar[c].expires
    /\ now < jar[c].value.exp

\* the browser receives the response to operation op of browser c
Receives(op, c) == resp.op = op /\ resp.client = c /\ resp' = BaseResp

\* C7: the session lifecycle.  A session becomes Authenticated only by a
\* successful login, and a successful login makes it Authenticated; it stays
\* so until the token expires or the browser logs out, and a logout makes it
\* Unauthenticated.  A task request of the session is let through by the
\* middleware exactly when the session is Authenticated.
C7_Lifecycle ==
    [][\A c \in Clients :
        /\ (~Authenticated(c) /\ Authenticated(c)')
                => Receives("LogIn", c) /\ resp.status = StatusOK
        /\ (Receives("LogIn", c) /\ resp.status = StatusOK) => Authenticated(c)'
        /\ (Authenticated(c) /\ ~Authenticated(c)')
                => \/ now' > now /\ now' >= jar[c].value.exp
                   \/ Receives("LogOut", c)
        /\ Receives("LogOut", c) => ~Authenticated(c)'
        /\ (resp'.op \in TaskRoutes /\ resp'.client = c /\ resp'.cookie = BrowserCookie(c))
                => (resp'.handled <=> Authenticated(c))]_vars

\* a session whose token expired has a task request refused
C7_Witness ==
    /\ resp.op \in TaskRoutes
    /\ ~resp.handled
    /\ resp.cookie = jar[resp.client].value
    /\ resp.cookie.key = Secret
    /\ resp.cookie.exp <= now
    /\ now < jar[resp.client].expires

\* task id has been assigned and no row has it
Gone(tbl, seq, id) == id \in 1..(seq - 1) /\ ~\E T \in tbl : T.id = id

\* C8: a DeleteTask answered 204 removed the caller's row; a row that is
\* gone never comes back; and for an id that is gone GetTaskById answers
\* "record not found", GetAllTasks does not list it and DeleteTask answers
\* "object does not exist".
C8_DeletedStaysDeleted ==
    [][/\ (Idle /\ resp'.op = "DeleteTask" /\ resp'.status = StatusNoContent)
            => /\ Matching(tasks, resp') # {}
               /\ Gone(tasks', nextTaskId', resp'.taskId)
       /\ \A id \in TaskIdParams :
            Gone(tasks, nextTaskId, id) => Gone(tasks', nextTaskId', id)
       /\ (Idle /\ resp'.handled /\ Gone(tasks, nextTaskId, resp'.taskId))
            => /\ resp'.op = "GetTaskById"
                    => resp'.status = StatusInternalServerError
                       /\ resp'.err = ErrRecordNotFound /\ resp'.tasks = <<>>
               /\ resp'.op = "DeleteTask"
                    => resp'.status = StatusInternalServerError
                       /\ resp'.err = ErrDoesNotExist
       /\ (Idle /\ resp'.handled /\ resp'.op = "GetAllTasks")
            => \A i \in 1..Len(resp'.tasks) :
                    ~Gone(tasks, nextTaskId, resp'.tasks[i].id)]_vars

\* the owner asks again for a task they deleted, while they have another
C8_Witness ==
    /\ Ran("GetTaskById")
    /\ Gone(tasks, nextTaskId, resp.taskId)
    /\ resp.err = ErrRecordNotFound
    /\ \E T \in tasks : T.user_id = Caller

\* C9: after a CreateTask answered 201, GetTaskById with the returned id
\* and the same session user succeeds and returns that id and the title of
\* the request, with updated_at not before created_at.
C9_CreateThenGet ==
    (Ran("CreateTask") /\ resp.status = StatusCreated)
        => LET made == resp.tasks[1]
               got == taskUsecase_GetTaskById(tasks, Caller, made.id)
           IN /\ ~BadTitle(resp.title)
              /\ made.title = resp.title
              /\ got.err = NoErr
              /\ got.task.id = made.id
              /\ got.task.title = resp.title
              /\ got.task.updated_at >= got.task.created_at

\* a task with the longest title, made after time 0 by a request whose
\* body names another user, while the other user has a task
C9_Witness ==
    /\ Ran("CreateTask") /\ resp.status = StatusCreated
    /\ Len(resp.title) = MaxTitleLen
    /\ resp.bodyUserId \notin {0, Caller}
    /\ resp.at > 0
    /\ \E T \in tasks : T.user_id # Caller

\* the rows of tbl that user u does not own
NotOwnedBy(tbl, u) == {T \in tbl : T.user_id # u}

\* C10: when the handler of a request that was in flight together with
\* requests of the other browser runs, the rows of every other owner are
\* the same after it as before it, and every task the response returns is
\* a row of the caller.
C10_Interleaved ==
    [][\A c \in Clients :
        (pending[c] # NoRequest /\ pending'[c] = NoRequest)
            => LET u == pending[c].cookie.user_id
               IN /\ NotOwnedBy(tasks', u) = NotOwnedBy(tasks, u)
                  /\ resp'.client = c
                  /\ \A i \in 1..Len(resp'.tasks) :
                        \E T \in tasks \cup tasks' :
                            T.id = resp'.tasks[i].id /\ T.user_id = u]_vars

\* one browser's update of its own task is answered while the other
\* browser's delete of that same task id is in flight
C10_Witness ==
    /\ Ran("UpdateTask") /\ resp.status = StatusOK
    /\ \E c \in Clients :
        /\ c # resp.client
        /\ pending[c].op = "DeleteTask"
        /\ pending[c].taskId = resp.taskId
        /\ pending[c].cookie.user_id # Caller
        /\ \E T \in tasks : T.user_id = pending[c].cookie.user_id

\* the response of the login handler to credentials e, p at the time of resp
LoginAnswer(e, p) ==
    userController_LogIn([resp EXCEPT !.email = e, !.password = p, !.bodyOk = TRUE],
                         users, resp.at)

\* C11: a failed login does not tell an unknown email from a wrong
\* password: the status and message that answer a login with well-formed
\* credentials and an email no user has are those a login with a
\* registered email and a wrong password would get.
C11_FailureIsGeneric ==
    (Ran("LogIn") /\ resp.bodyOk /\ resp.email \in ValidEmails
            /\ resp.password \in Passwords /\ Stored = {})
        => \A i \in 1..Len(users) : \A p \in Passwords :
                p # users[i].password.bcrypt
                    => /\ LoginAnswer(users[i].email, p).status = resp.status
                       /\ LoginAnswer(users[i].email, p).err = resp.err

\* the operations the status table of the controllers covers
StatusOps == {"SignUp", "LogIn", "GetAllTasks", "GetTaskById", "CreateTask",
              "UpdateTask", "DeleteTask"}

\* the status each operation answers when its use-case succeeds
SuccessStatus(op) ==
    CASE op \in {"SignUp", "CreateTask"} -> StatusCreated
      [] op = "DeleteTask" -> StatusNoContent
      [] OTHER -> StatusOK

\* the errors the use-case of request r may return when it is called on the
\* tables utbl and tbl (the empty message is success)
UseCaseErrors(r, utbl, tbl, seq) ==
    LET cred == [email |-> r.email, password |-> r.password]
        u == r.cookie.user_id
        task == [title |-> r.title, user_id |-> u]
    IN CASE r.op = "SignUp" -> {userUsecase_SignUp(utbl, cred).err}
         [] r.op = "LogIn" -> {userUsecase_Login(utbl, cred, r.at).err}
         [] r.op = "GetAllTasks" -> {l.err : l \in taskUsecase_GetAllTasks(tbl, u)}
         [] r.op = "GetTaskById" -> {taskUsecase_GetTaskById(tbl, u, r.taskId).err}
         [] r.op = "CreateTask" -> {taskUsecase_CreateTask(tbl, seq, task, r.at).err}
         [] r.op = "UpdateTask" -> {taskUsecase_UpdateTask(tbl, task, u, r.taskId, r.at).err}
         [] r.op = "DeleteTask" -> {taskUsecase_DeleteTask(tbl, u, r.taskId).err}
         [] OTHER -> {}

\* C12: when a controller operation has decoded its body, the status of its
\* response follows from the outcome of the use-case alone: a success is
\* answered 201 by SignUp and CreateTask, 204 by DeleteTask and 200 by
\* LogIn, GetAllTasks, GetTaskById and UpdateTask, and a failure of any
\* kind is answered 500 with the failure's message as the body.
C12_StatusFromOutcome ==
    [][(Idle /\ resp'.handled /\ resp'.bodyOk /\ resp'.op \in StatusOps)
        => /\ resp'.err \in UseCaseErrors(resp', users, tasks, nextTaskId)
           /\ resp'.err = NoErr => resp'.status = SuccessStatus(resp'.op)
           /\ resp'.err # NoErr
                => /\ resp'.status = StatusInternalServerError
                   /\ resp'.tasks = <<>>
                   /\ ~resp'.setCookie]_vars

\* a delete answered 204 and a title the validator refuses answered 500,
\* both by a server that two users have signed up to
C12_Witness ==
    /\ Len(users) = MaxUsers
    /\ \/ Ran("DeleteTask") /\ resp.status = StatusNoContent /\ resp.err = NoErr
       \/ /\ Ran("UpdateTask") /\ resp.bodyOk
          /\ resp.status = StatusInternalServerError /\ resp.err = ErrTitleRequired

\* C13: GetAllTasks answers with exactly the tasks of the session's user,
\* each once and as its response projection, the oldest first by creation
\* time; for a user without tasks it answers an empty listing and no error.
C13_ListingOwnedOldestFirst ==
    Ran("GetAllTasks")
        => LET own == OwnedBy(tasks, Caller)
               n == Len(resp.tasks)
           IN /\ resp.status = StatusOK
              /\ resp.err = NoErr
              /\ n = Cardinality(own)
              /\ {resp.tasks[i] : i \in 1..n} = {TaskResponse(T) : T \in own}
              /\ \A i, j \in 1..n :
                    i < j => resp.tasks[i].created_at <= resp.tasks[j].created_at
              /\ own = {} => resp.tasks = <<>>

\* a listing of two tasks made at different times, the older of which was
\* updated after it was made
C13_Witness ==
    /\ Ran("GetAllTasks")
    /\ Len(resp.tasks) = 2
    /\ resp.tasks[1].created_at < resp.tasks[2].created_at
    /\ resp.tasks[1].updated_at > resp.tasks[1].created_at

\* C14: the owner of every task operation is the user_id of the verified
\* session and never the owner id of the body: the row a CreateTask stores
\* is owned by the session's user whatever the body names, no later step
\* changes the owner of a stored row, and UpdateTask and DeleteTask touch
\* only rows that match the task id together with the session's user.
C14_OwnerFromSession ==
    [][/\ \A T \in tasks : \A U \in tasks' : T.id = U.id => T.user_id = U.user_id
       /\ (Idle /\ resp'.handled /\ resp'.op = "CreateTask"
                /\ resp'.status = StatusCreated)
            => \E T \in tasks' :
                    /\ T \notin tasks
                    /\ tasks' = tasks \cup {T}
                    /\ T.id = resp'.tasks[1].id
                    /\ T.user_id = resp'.cookie.user_id
       /\ (Idle /\ resp'.handled /\ resp'.op \in {"UpdateTask", "DeleteTask"})
            => /\ tasks \ tasks' \subseteq Matching(tasks, resp')
               /\ \A U \in tasks' \ tasks : U.user_id = resp'.cookie.user_id
               /\ Matching(tasks, resp') = {} => resp'.status # SuccessStatus(resp'.op)]_vars

\* a task stored for the session's user by a request whose body names the
\* other user, who has no task
C14_Witness ==
    /\ Ran("CreateTask") /\ resp.status = StatusCreated
    /\ resp.bodyUserId \in RegisteredIds \ {Caller}
    /\ \E T \in tasks : T.id = resp.tasks[1].id /\ T.user_id = Caller
    /\ \A T \in tasks : T.user_id # resp.bodyUserId

\* C15: a successful UpdateTask changes the title and the time of the last
\* update of the one task that matches the task id and the session's user,
\* and nothing else: the task keeps its id, owner and creation time, every
\* other task is the same after the request as before it, and no task is
\* added or removed.
C15_UpdateFrame ==
    [][(Idle /\ resp'.handled /\ resp'.op = "UpdateTask" /\ resp'.status = StatusOK)
        => /\ Cardinality(Matching(tasks, resp')) = 1
           /\ \E T \in Matching(tasks, resp') :
                LET U == [T EXCEPT !.title = resp'.title, !.updated_at = resp'.at]
                IN /\ tasks' = (tasks \ {T}) \cup {U}
                   /\ U.id = T.id /\ U.user_id = T.user_id
                   /\ U.created_at = T.created_at
                   /\ resp'.tasks = <<TaskResponse(U)>>
           /\ Cardinality(tasks') = Cardinality(tasks)
           /\ {T.id : T \in tasks'} = {T.id : T \in tasks}
           /\ nextTaskId' = nextTaskId]_vars

\* a task updated to a new title at a time after its creation, by a request
\* whose body names the other user, while the other user has a task
C15_Witness ==
    /\ Ran("UpdateTask") /\ resp.status = StatusOK
    /\ resp.bodyUserId \notin {0, Caller}
    /\ \E T \in tasks :
        /\ T.id = resp.taskId /\ T.user_id = Caller
        /\ T.title = resp.title
        /\ T.created_at < T.updated_at
    /\ \E T \in tasks : T.user_id # Caller /\ T.title # resp.title

\* the credential check of the login resp answers succeeded: a user has the
\* email, and the stored hash was made from the password
CredentialsMatch ==
    \E u \in Stored : bcrypt_CompareHashAndPassword(u.password, resp.password) = NoErr

\* C16: a LogIn that fails, whether its body does not decode, its
\* credentials do not validate, its email is unknown or its password does
\* not match, sets no cookie on its response, and the browser's cookie is
\* the same after the response as before it; a token cookie with a
\* non-empty value is set only by a LogIn whose credential check succeeded.
C16_NoCookieOnFailure ==
    [][/\ (Ran("LogIn") /\ resp.status # StatusOK)
            => /\ ~resp.setCookie /\ resp.newCookie = NoCookie
               /\ jar' = jar
       /\ (resp.setCookie /\ resp.newCookie.value # NoToken)
            => /\ Ran("LogIn") /\ resp.bodyOk /\ resp.status = StatusOK
               /\ CredentialsMatch
       /\ (Ran("LogIn") /\ ~(resp.bodyOk /\ CredentialsMatch))
            => resp.status # StatusOK]_vars

\* a login with well-formed credentials and an email no user has, from a
\* browser that holds the token of an earlier login
C16_Witness ==
    /\ Ran("LogIn") /\ resp.bodyOk
    /\ resp.email \in ValidEmails /\ resp.password \in Passwords
    /\ users # <<>> /\ Stored = {}
    /\ resp.status = StatusInternalServerError /\ ~resp.setCookie
    /\ jar[resp.client].value # NoToken

====
